---- MODULE Spec2Model ----
(***************************************************************************)
(* Sadaa Instrumentals API (backend/server.py): the four collections of   *)
(* the document store and the request handlers that read and write them.  *)
(*                                                                         *)
(* A collection is the sequence of its documents in insertion (natural)   *)
(* order; find_one / update_one / delete_one act on the first document    *)
(* that matches the filter.  uuid4 ids are modelled as numbers drawn from *)
(* a per-collection counter that never goes back.  datetime.utcnow() is   *)
(* the variable now, in days.  An Optional value is <<>> (None) or <<v>>. *)
(***************************************************************************)
EXTENDS Naturals, Sequences, FiniteSets

VARIABLES instrumentals, users, playlists, subscriptions, nextId, now, resp, reqs

store == <<instrumentals, users, playlists, subscriptions>>
vars == <<instrumentals, users, playlists, subscriptions, nextId, now, resp, reqs>>

\* ---------------------------------------------------------------- bounds
MaxSubs == 2
MaxReqs == 2
MaxPlayReqs == 3
MaxCreates == 2
MaxSeeds == 2
MaxPlays == 2
MaxDetail == 3
MaxTime == 60

\* ------------------------------------------------------ program constants
MonthlyDays == 30
YearlyDays == 365
MonthlyPrice == 53
YearlyPrice == 499
TrackListLimit == 100
ListLimit == 100
FeaturedLimit == 10
PlaylistListLimit == 50

None == <<>>
Some(v) == <<v>>

\* ------------------------------------------------------- store primitives
Min(S) == CHOOSE x \in S : \A y \in S : x <= y
Range(seq) == {seq[i] : i \in DOMAIN seq}

\* A filter document {"k": v, ...}: every named field equals the given value.
Matches(doc, filter) == \A k \in DOMAIN filter : doc[k] = filter[k]

\* Index of the first document of coll matching the filter, 0 when none does.
FirstIdx(coll, filter) ==
    LET hits == {i \in 1..Len(coll) : Matches(coll[i], filter)}
    IN  IF hits = {} THEN 0 ELSE Min(hits)

\* collection.find_one(filter): the first match as Some(doc), or None.
FindOne(coll, filter) ==
    LET i == FirstIdx(coll, filter) IN IF i = 0 THEN None ELSE Some(coll[i])

\* collection.find({"id": {"$in": ids}}).to_list(limit): the matching documents
\* in the collection's order, cut to the first limit of them.
FindIdIn(coll, ids, limit) ==
    LET hits == SelectSeq(coll, LAMBDA d : d.id \in ids)
    IN  SubSeq(hits, 1, IF Len(hits) < limit THEN Len(hits) ELSE limit)

\* collection.find(filter).to_list(limit)
Find(coll, filter, limit) ==
    LET hits == SelectSeq(coll, LAMBDA d : Matches(d, filter))
    IN  SubSeq(hits, 1, IF Len(hits) < limit THEN Len(hits) ELSE limit)

\* collection.insert_one(doc)
InsertOne(coll, doc) == Append(coll, doc)

\* An update document whose $addToSet appends without looking.
ApplyUpdateAppend(doc, update) ==
    [k \in DOMAIN doc |->
        IF "set" \in DOMAIN update /\ k \in DOMAIN update.set THEN update.set[k]
        ELSE IF "addToSet" \in DOMAIN update /\ k \in DOMAIN update.addToSet
        THEN Append(doc[k], update.addToSet[k])
        ELSE IF "pull" \in DOMAIN update /\ k \in DOMAIN update.pull
        THEN LET Keep(x) == x # update.pull[k] IN SelectSeq(doc[k], Keep)
        ELSE doc[k]]

\* An update document with any of the operators $set, $inc, $addToSet, $pull.
ApplyUpdate(doc, update) ==
    [k \in DOMAIN doc |->
        IF "set" \in DOMAIN update /\ k \in DOMAIN update.set THEN update.set[k]
        ELSE IF "inc" \in DOMAIN update /\ k \in DOMAIN update.inc
        THEN doc[k] + update.inc[k]
        ELSE IF "addToSet" \in DOMAIN update /\ k \in DOMAIN update.addToSet
        THEN IF update.addToSet[k] \in Range(doc[k]) THEN doc[k]
             ELSE Append(doc[k], update.addToSet[k])
        ELSE IF "pull" \in DOMAIN update /\ k \in DOMAIN update.pull
        THEN LET Keep(x) == x # update.pull[k] IN SelectSeq(doc[k], Keep)
        ELSE doc[k]]

\* collection.update_one(filter, update): the first match updated.
UpdateOne(coll, filter, update) ==
    LET i == FirstIdx(coll, filter)
    IN  IF i = 0 THEN coll ELSE [coll EXCEPT ![i] = ApplyUpdate(coll[i], update)]

\* result.matched_count of update_one, result.deleted_count of delete_one
MatchedCount(coll, filter) == IF FirstIdx(coll, filter) = 0 THEN 0 ELSE 1

\* collection.delete_one(filter)
DeleteOne(coll, filter) ==
    LET i == FirstIdx(coll, filter)
    IN  IF i = 0 THEN coll
        ELSE [j \in 1..(Len(coll) - 1) |-> IF j < i THEN coll[j] ELSE coll[j + 1]]

\* ----------------------------------------------------------------- models
\* class User
User(id, device_id) ==
    [id |-> id, device_id |-> device_id, is_subscribed |-> FALSE,
     favorites |-> <<>>, created_at |-> now]

\* class Subscription
Subscription(id, user_id, plan, price, expires_at) ==
    [id |-> id, user_id |-> user_id, is_active |-> TRUE, plan |-> plan,
     price |-> price, subscribed_at |-> now, expires_at |-> Some(expires_at)]


\* class Instrumental, built from a payload that names its non-null fields
Field(data, k, default) == IF k \in DOMAIN data THEN data[k] ELSE default
OptField(data, k) == IF k \in DOMAIN data THEN Some(data[k]) ELSE None

Instrumental(id, data) ==
    [id |-> id, title |-> data.title, mood |-> data.mood, duration |-> data.duration,
     duration_formatted |-> data.duration_formatted,
     is_premium |-> Field(data, "is_premium", FALSE),
     is_featured |-> Field(data, "is_featured", FALSE),
     audio_url |-> OptField(data, "audio_url"),
     thumbnail_color |-> Field(data, "thumbnail_color", "#4A3463"),
     file_size |-> Field(data, "file_size", 0),
     play_count |-> 0,
     preview_start |-> OptField(data, "preview_start"),
     preview_end |-> OptField(data, "preview_end"),
     created_at |-> now]

\* class Playlist, built from a PlaylistCreate payload
Playlist(id, data) ==
    [id |-> id, user_id |-> data.user_id, name |-> data.name,
     description |-> Field(data, "description", ""), track_ids |-> <<>>,
     cover_color |-> Field(data, "cover_color", "#4A3463"),
     created_at |-> now, updated_at |-> now]

\* class PlaylistUpdate: every field Optional, None by default
PlaylistUpdate == [name |-> None, description |-> None, cover_color |-> None]

\* class InstrumentalUpdate: every field Optional, None by default
InstrumentalUpdate ==
    [title |-> None, mood |-> None, duration |-> None, duration_formatted |-> None,
     is_premium |-> None, is_featured |-> None, audio_url |-> None,
     thumbnail_color |-> None, file_size |-> None, preview_start |-> None,
     preview_end |-> None]

\* The fields a stored Instrumental keeps as Optional.
OptionalFields == {"audio_url", "preview_start", "preview_end"}

SAMPLE_INSTRUMENTALS == <<
    [title |-> "Mawla Ya Salli - Peaceful", mood |-> "Spiritual", duration |-> 245,
     duration_formatted |-> "4:05", is_premium |-> FALSE, is_featured |-> TRUE,
     thumbnail_color |-> "#4A3463",
     audio_url |-> "https://www.soundhelix.com/examples/mp3/SoundHelix-Song-1.mp3",
     file_size |-> 4500000],
    [title |-> "Nasheed of Dawn", mood |-> "Calm", duration |-> 312,
     duration_formatted |-> "5:12", is_premium |-> TRUE, is_featured |-> TRUE,
     thumbnail_color |-> "#2D5A4A",
     audio_url |-> "https://www.soundhelix.com/examples/mp3/SoundHelix-Song-2.mp3",
     file_size |-> 5200000],
    [title |-> "Morning Dhikr", mood |-> "Calm", duration |-> 180, duration_formatted |-> "3:00",
     is_premium |-> FALSE, is_featured |-> FALSE, thumbnail_color |-> "#5A4A63",
     audio_url |-> "https://www.soundhelix.com/examples/mp3/SoundHelix-Song-3.mp3",
     file_size |-> 3200000],
    [title |-> "Peaceful Heart", mood |-> "Soft", duration |-> 210,
     duration_formatted |-> "3:30", is_premium |-> FALSE, is_featured |-> FALSE,
     thumbnail_color |-> "#4A5A63",
     audio_url |-> "https://www.soundhelix.com/examples/mp3/SoundHelix-Song-4.mp3",
     file_size |-> 3800000],
    [title |-> "Blessed Sunrise", mood |-> "Spiritual", duration |-> 195,
     duration_formatted |-> "3:15", is_premium |-> FALSE, is_featured |-> FALSE,
     thumbnail_color |-> "#634A5A",
     audio_url |-> "https://www.soundhelix.com/examples/mp3/SoundHelix-Song-5.mp3",
     file_size |-> 3500000],
    [title |-> "Gentle Breeze", mood |-> "Calm", duration |-> 240, duration_formatted |-> "4:00",
     is_premium |-> FALSE, is_featured |-> FALSE, thumbnail_color |-> "#4A6357",
     audio_url |-> "https://www.soundhelix.com/examples/mp3/SoundHelix-Song-6.mp3",
     file_size |-> 4200000],
    [title |-> "Silent Prayer", mood |-> "Soft", duration |-> 165, duration_formatted |-> "2:45",
     is_premium |-> FALSE, is_featured |-> FALSE, thumbnail_color |-> "#574A63",
     audio_url |-> "https://www.soundhelix.com/examples/mp3/SoundHelix-Song-7.mp3",
     file_size |-> 2900000],
    [title |-> "Ya Sahib al-Taj", mood |-> "Spiritual", duration |-> 420,
     duration_formatted |-> "7:00", is_premium |-> TRUE, is_featured |-> FALSE,
     thumbnail_color |-> "#634A4A",
     audio_url |-> "https://www.soundhelix.com/examples/mp3/SoundHelix-Song-8.mp3",
     file_size |-> 7200000],
    [title |-> "Drums of Devotion", mood |-> "Drums", duration |-> 285,
     duration_formatted |-> "4:45", is_premium |-> TRUE, is_featured |-> FALSE,
     thumbnail_color |-> "#8B5A2B",
     audio_url |-> "https://www.soundhelix.com/examples/mp3/SoundHelix-Song-9.mp3",
     file_size |-> 5000000],
    [title |-> "Energetic Praise", mood |-> "Energetic", duration |-> 198,
     duration_formatted |-> "3:18", is_premium |-> TRUE, is_featured |-> FALSE,
     thumbnail_color |-> "#6B4A3A",
     audio_url |-> "https://www.soundhelix.com/examples/mp3/SoundHelix-Song-10.mp3",
     file_size |-> 3600000],
    [title |-> "Sacred Rhythm", mood |-> "Drums", duration |-> 330,
     duration_formatted |-> "5:30", is_premium |-> TRUE, is_featured |-> FALSE,
     thumbnail_color |-> "#4A4A63",
     audio_url |-> "https://www.soundhelix.com/examples/mp3/SoundHelix-Song-11.mp3",
     file_size |-> 5800000],
    [title |-> "Night of Peace", mood |-> "Calm", duration |-> 480,
     duration_formatted |-> "8:00", is_premium |-> TRUE, is_featured |-> FALSE,
     thumbnail_color |-> "#2A3A4A",
     audio_url |-> "https://www.soundhelix.com/examples/mp3/SoundHelix-Song-12.mp3",
     file_size |-> 8200000],
    [title |-> "Joyful Celebration", mood |-> "Energetic", duration |-> 252,
     duration_formatted |-> "4:12", is_premium |-> TRUE, is_featured |-> FALSE,
     thumbnail_color |-> "#5A3A4A",
     audio_url |-> "https://www.soundhelix.com/examples/mp3/SoundHelix-Song-13.mp3",
     file_size |-> 4500000],
    [title |-> "Soft Meditation", mood |-> "Soft", duration |-> 360,
     duration_formatted |-> "6:00", is_premium |-> TRUE, is_featured |-> FALSE,
     thumbnail_color |-> "#3A4A5A",
     audio_url |-> "https://www.soundhelix.com/examples/mp3/SoundHelix-Song-14.mp3",
     file_size |-> 6300000],
    [title |-> "Divine Harmony", mood |-> "Spiritual", duration |-> 390,
     duration_formatted |-> "6:30", is_premium |-> TRUE, is_featured |-> FALSE,
     thumbnail_color |-> "#4A3A5A",
     audio_url |-> "https://www.soundhelix.com/examples/mp3/SoundHelix-Song-15.mp3",
     file_size |-> 6800000]
>>

\* ------------------------------------------------------------ input sets
Plans == {"monthly", "yearly"}
DeviceIds == {"dev-a", "dev-b"}
\* The ids users can get: a request may name one before its user exists.
UserIds == 1..Cardinality(DeviceIds)
TickSteps == {MonthlyDays}
\* The instrumental ids requests name: the first ids handed out.
TrackIds == 1..2
\* POST /instrumentals bodies (class InstrumentalCreate)
FreePayload ==
    [title |-> "Evening Calm", mood |-> "Calm", duration |-> 200,
     duration_formatted |-> "3:20"]
CreatePayloads ==
    {FreePayload,
     [title |-> "War Drums", mood |-> "Drums", duration |-> 120,
      duration_formatted |-> "2:00", is_premium |-> TRUE, preview_start |-> 70,
      preview_end |-> 100]}
\* The playlist ids requests name: the first playlist created, which is absent
\* before its creation and after its deletion.
PlaylistIds == {1}
\* POST /playlists bodies (class PlaylistCreate)
PlaylistPayloads == {[user_id |-> 1, name |-> "Mix"]}
\* PUT /playlists/{id} bodies
PlaylistPatches == {PlaylistUpdate, [PlaylistUpdate EXCEPT !.name = Some("Renamed")]}
\* GET /instrumentals parameters: absent, empty, the sentinel and two moods;
\* absent and both flags; absent and a search term in capitals.
Moods == {None, Some(""), Some("All"), Some("Drums"), Some("Calm")}
PremiumFlags == {None, Some(TRUE), Some(FALSE)}
Searches == {None, Some("DRUM")}
\* PUT /instrumentals/{id} bodies: the empty one, one whose only value is falsy,
\* one naming two fields.
Patches ==
    {InstrumentalUpdate,
     [InstrumentalUpdate EXCEPT !.is_premium = Some(FALSE)],
     [InstrumentalUpdate EXCEPT !.title = Some("Retitled"), !.preview_start = Some(0)]}

\* ------------------------------------------------------------- responses
Ok(op, arg, body) == [op |-> op, arg |-> arg, status |-> 200, body |-> body]
Err(op, arg, status) == [op |-> op, arg |-> arg, status |-> status, body |-> None]

\* --------------------------------------------------- subscription store calls
\* sub.expires_at and sub.expires_at < datetime.utcnow()
Expired(sub, t) == sub.expires_at # None /\ sub.expires_at[1] < t

ActiveSubFilterInverted(user_id) == [user_id |-> user_id, is_active |-> FALSE]
\* {"user_id": user_id, "is_active": True}
ActiveSubFilter(user_id) == [user_id |-> user_id, is_active |-> TRUE]

FindActiveSubUnexpired(subs, user_id) ==
    LET hits == {i \in 1..Len(subs) :
                    Matches(subs[i], ActiveSubFilter(user_id)) /\ ~Expired(subs[i], now)}
    IN  IF hits = {} THEN None ELSE Some(subs[Min(hits)])
\* db.subscriptions.find_one({"user_id": user_id, "is_active": True})
FindActiveSub(subs, user_id) == FindOne(subs, ActiveSubFilter(user_id))

\* A flag that is set and never cleared.
SetSubscribedOnly(us, user_id, flag) ==
    IF flag THEN UpdateOne(us, [id |-> user_id], [set |-> [is_subscribed |-> TRUE]]) ELSE us
\* db.users.update_one({"id": user_id}, {"$set": {"is_subscribed": flag}})
SetSubscribed(us, user_id, flag) ==
    UpdateOne(us, [id |-> user_id], [set |-> [is_subscribed |-> flag]])

DeactivateNoMatch(subs, sub_id) == subs
\* db.subscriptions.update_one({"id": sub_id}, {"$set": {"is_active": False}})
Deactivate(subs, sub_id) ==
    UpdateOne(subs, [id |-> sub_id], [set |-> [is_active |-> FALSE]])

\* subscribe: the plan's price and days
PlanPrice(plan) == IF plan = "yearly" THEN YearlyPrice ELSE MonthlyPrice
PlanDays(plan) == IF plan = "yearly" THEN YearlyDays ELSE MonthlyDays

\* ------------------------------------------------------------ identity
\* POST /users
CreateOrGetUser(device_id) ==
    LET existing == FindOne(users, [device_id |-> device_id])
    IN  IF existing # None
        THEN /\ resp' = Ok("create_or_get_user", <<device_id>>, existing[1])
             /\ UNCHANGED <<instrumentals, users, playlists, subscriptions, nextId, now, reqs>>
        ELSE /\ LET user == User(nextId.users, device_id)
                IN  /\ users' = InsertOne(users, user)
                    /\ resp' = Ok("create_or_get_user", <<device_id>>, user)
             /\ nextId' = [nextId EXCEPT !.users = @ + 1]
             /\ UNCHANGED <<instrumentals, playlists, subscriptions, now, reqs>>

\* GET /users/{user_id}
GetUser(user_id) ==
    LET user == FindOne(users, [id |-> user_id])
    IN  /\ resp' = IF user = None THEN Err("get_user", <<user_id>>, 404)
                   ELSE Ok("get_user", <<user_id>>, user[1])
        /\ UNCHANGED <<instrumentals, users, playlists, subscriptions, nextId, now, reqs>>

\* -------------------------------------------------------------- favorites
\* GET /favorites/{user_id}
GetFavorites(user_id) ==
    LET user == FindOne(users, [id |-> user_id])
    IN  /\ resp' = IF user = None THEN Err("get_favorites", <<user_id>>, 404)
                   ELSE IF user[1].favorites = <<>> THEN Ok("get_favorites", <<user_id>>, <<>>)
                   ELSE Ok("get_favorites", <<user_id>>,
                           FindIdIn(instrumentals, Range(user[1].favorites), TrackListLimit))
        /\ UNCHANGED <<instrumentals, users, playlists, subscriptions, nextId, now, reqs>>

\* {"$addToSet": {"favorites": track_id}}
FavoritesAddToSet(track_id) == [addToSet |-> [favorites |-> track_id]]

\* POST /favorites/{user_id}/{track_id}
AddToFavorites(user_id, track_id) ==
    /\ users' = UpdateOne(users, [id |-> user_id], FavoritesAddToSet(track_id))
    /\ resp' = IF MatchedCount(users, [id |-> user_id]) = 0
               THEN Err("add_to_favorites", <<user_id, track_id>>, 404)
               ELSE Ok("add_to_favorites", <<user_id, track_id>>, None)
    /\ UNCHANGED <<instrumentals, playlists, subscriptions, nextId, now, reqs>>

\* DELETE /favorites/{user_id}/{track_id}
RemoveFromFavorites(user_id, track_id) ==
    /\ users' = UpdateOne(users, [id |-> user_id], [pull |-> [favorites |-> track_id]])
    /\ resp' = IF MatchedCount(users, [id |-> user_id]) = 0
               THEN Err("remove_from_favorites", <<user_id, track_id>>, 404)
               ELSE Ok("remove_from_favorites", <<user_id, track_id>>, None)
    /\ UNCHANGED <<instrumentals, playlists, subscriptions, nextId, now, reqs>>

\* GET /favorites/{user_id}/check/{track_id}
CheckFavorite(user_id, track_id) ==
    LET user == FindOne(users, [id |-> user_id])
    IN  /\ resp' = Ok("check_favorite", <<user_id, track_id>>,
                      [is_favorite |-> IF user = None THEN FALSE
                                       ELSE track_id \in Range(user[1].favorites)])
        /\ UNCHANGED <<instrumentals, users, playlists, subscriptions, nextId, now, reqs>>

\* -------------------------------------------------------------- playlists
\* GET /playlists/{user_id}
GetUserPlaylists(user_id) ==
    /\ resp' = Ok("get_user_playlists", <<user_id>>,
                  Find(playlists, [user_id |-> user_id], PlaylistListLimit))
    /\ UNCHANGED <<instrumentals, users, playlists, subscriptions, nextId, now, reqs>>

\* get_playlist: the tracks of a playlist document
\* track_map = {t["id"]: t for t in track_docs}
\* tracks = [... track_map[tid] for tid in playlist_data.track_ids if tid in track_map]
PlaylistTracks(playlist) ==
    IF playlist.track_ids = <<>> THEN <<>>
    ELSE LET track_docs == FindIdIn(instrumentals, Range(playlist.track_ids), TrackListLimit)
             found == SelectSeq(playlist.track_ids,
                                LAMBDA tid : \E i \in DOMAIN track_docs : track_docs[i].id = tid)
         IN  [n \in DOMAIN found |->
                track_docs[CHOOSE i \in DOMAIN track_docs :
                              /\ track_docs[i].id = found[n]
                              /\ \A j \in DOMAIN track_docs :
                                    track_docs[j].id = found[n] => j <= i]]

\* GET /playlists/detail/{playlist_id}
GetPlaylist(playlist_id) ==
    LET playlist == FindOne(playlists, [id |-> playlist_id])
    IN  /\ resp' = IF playlist = None THEN Err("get_playlist", <<playlist_id>>, 404)
                   ELSE Ok("get_playlist", <<playlist_id>>,
                           [playlist |-> playlist[1], tracks |-> PlaylistTracks(playlist[1])])
        /\ UNCHANGED <<instrumentals, users, playlists, subscriptions, nextId, now, reqs>>

\* POST /playlists
CreatePlaylist(data) ==
    /\ nextId.playlists \in PlaylistIds
    /\ LET playlist == Playlist(nextId.playlists, data)
       IN  /\ playlists' = InsertOne(playlists, playlist)
           /\ resp' = Ok("create_playlist", <<data>>, playlist)
    /\ nextId' = [nextId EXCEPT !.playlists = @ + 1]
    /\ UNCHANGED <<instrumentals, users, subscriptions, now, reqs>>

\* PUT /playlists/{playlist_id}
UpdatePlaylist(playlist_id, data) ==
    LET given == [k \in {f \in DOMAIN data : data[f] # None} |-> data[k][1]]
        update_data == [k \in DOMAIN given \cup {"updated_at"} |->
                          IF k = "updated_at" THEN now ELSE given[k]]
        updated == UpdateOne(playlists, [id |-> playlist_id], [set |-> update_data])
    IN  /\ playlists' = updated
        /\ resp' = IF MatchedCount(playlists, [id |-> playlist_id]) = 0
                   THEN Err("update_playlist", <<playlist_id, data>>, 404)
                   ELSE Ok("update_playlist", <<playlist_id, data>>,
                           FindOne(updated, [id |-> playlist_id])[1])
        /\ UNCHANGED <<instrumentals, users, subscriptions, nextId, now, reqs>>

\* DELETE /playlists/{playlist_id}
DeletePlaylist(playlist_id) ==
    /\ playlists' = DeleteOne(playlists, [id |-> playlist_id])
    /\ resp' = IF MatchedCount(playlists, [id |-> playlist_id]) = 0
               THEN Err("delete_playlist", <<playlist_id>>, 404)
               ELSE Ok("delete_playlist", <<playlist_id>>, None)
    /\ UNCHANGED <<instrumentals, users, subscriptions, nextId, now, reqs>>

\* An add that leaves updated_at alone.
AddTrackToPlaylistNoRefresh(playlist_id, track_id) ==
    /\ playlists' = UpdateOne(playlists, [id |-> playlist_id],
                              [addToSet |-> [track_ids |-> track_id]])
    /\ resp' = IF MatchedCount(playlists, [id |-> playlist_id]) = 0
               THEN Err("add_track_to_playlist", <<playlist_id, track_id>>, 404)
               ELSE Ok("add_track_to_playlist", <<playlist_id, track_id>>, None)
    /\ UNCHANGED <<instrumentals, users, subscriptions, nextId, now, reqs>>

\* POST /playlists/{playlist_id}/tracks/{track_id}
AddTrackToPlaylist(playlist_id, track_id) ==
    /\ playlists' = UpdateOne(playlists, [id |-> playlist_id],
                              [addToSet |-> [track_ids |-> track_id],
                               set |-> [updated_at |-> now]])
    /\ resp' = IF MatchedCount(playlists, [id |-> playlist_id]) = 0
               THEN Err("add_track_to_playlist", <<playlist_id, track_id>>, 404)
               ELSE Ok("add_track_to_playlist", <<playlist_id, track_id>>, None)
    /\ UNCHANGED <<instrumentals, users, subscriptions, nextId, now, reqs>>

\* DELETE /playlists/{playlist_id}/tracks/{track_id}
RemoveTrackFromPlaylist(playlist_id, track_id) ==
    /\ playlists' = UpdateOne(playlists, [id |-> playlist_id],
                              [pull |-> [track_ids |-> track_id],
                               set |-> [updated_at |-> now]])
    /\ resp' = IF MatchedCount(playlists, [id |-> playlist_id]) = 0
               THEN Err("remove_track_from_playlist", <<playlist_id, track_id>>, 404)
               ELSE Ok("remove_track_from_playlist", <<playlist_id, track_id>>, None)
    /\ UNCHANGED <<instrumentals, users, subscriptions, nextId, now, reqs>>

\* --------------------------------------------------------- subscriptions
\* POST /subscription/subscribe
Subscribe(user_id, plan) ==
    LET existing == FindActiveSub(subscriptions, user_id)
    IN  IF existing # None
        THEN /\ resp' = Ok("subscribe", <<user_id, plan>>, existing[1])
             /\ UNCHANGED <<instrumentals, users, playlists, subscriptions, nextId, now, reqs>>
        ELSE /\ nextId.subscriptions <= MaxSubs
             /\ LET subscription == Subscription(nextId.subscriptions, user_id, plan,
                                                 PlanPrice(plan), now + PlanDays(plan))
                IN  /\ subscriptions' = InsertOne(subscriptions, subscription)
                    /\ users' = SetSubscribed(users, user_id, TRUE)
                    /\ resp' = Ok("subscribe", <<user_id, plan>>, subscription)
             /\ nextId' = [nextId EXCEPT !.subscriptions = @ + 1]
             /\ UNCHANGED <<instrumentals, playlists, now, reqs>>

\* GET /subscription/status/{user_id}
GetSubscriptionStatus(user_id) ==
    LET subscription == FindActiveSub(subscriptions, user_id)
        arg == <<user_id>>
    IN  IF subscription = None
        THEN /\ resp' = Ok("get_subscription_status", arg,
                           [is_subscribed |-> FALSE, subscription |-> None])
             /\ UNCHANGED <<instrumentals, users, playlists, subscriptions, nextId, now, reqs>>
        ELSE IF Expired(subscription[1], now)
        THEN /\ subscriptions' = Deactivate(subscriptions, subscription[1].id)
             /\ users' = SetSubscribed(users, user_id, FALSE)
             /\ resp' = Ok("get_subscription_status", arg,
                           [is_subscribed |-> FALSE, subscription |-> None])
             /\ UNCHANGED <<instrumentals, playlists, nextId, now, reqs>>
        ELSE /\ resp' = Ok("get_subscription_status", arg,
                           [is_subscribed |-> TRUE, subscription |-> subscription])
             /\ UNCHANGED <<instrumentals, users, playlists, subscriptions, nextId, now, reqs>>

RestorePurchaseChecked(user_id) ==
    LET subscription == FindActiveSub(subscriptions, user_id)
    IN  /\ resp' = Ok("restore_purchase", <<user_id>>,
                      IF subscription # None /\ ~Expired(subscription[1], now)
                      THEN [restored |-> TRUE, subscription |-> subscription]
                      ELSE [restored |-> FALSE, subscription |-> None])
        /\ UNCHANGED <<instrumentals, users, playlists, subscriptions, nextId, now, reqs>>
\* POST /subscription/restore/{user_id}
RestorePurchase(user_id) ==
    LET subscription == FindActiveSub(subscriptions, user_id)
    IN  /\ resp' = Ok("restore_purchase", <<user_id>>,
                      IF subscription # None
                      THEN [restored |-> TRUE, subscription |-> subscription]
                      ELSE [restored |-> FALSE, subscription |-> None])
        /\ UNCHANGED <<instrumentals, users, playlists, subscriptions, nextId, now, reqs>>

\* ---------------------------------------------------------------- catalog
\* Instrumental ids are handed out one per Create and Len(SAMPLE_INSTRUMENTALS)
\* per Seed, so with fewer Creates than a Seed's ids the counter tells both counts.
Created == (nextId.instrumentals - 1) % Len(SAMPLE_INSTRUMENTALS)
Seeded == (nextId.instrumentals - 1) \div Len(SAMPLE_INSTRUMENTALS)

NewInstrumentalIdByCount == Len(instrumentals) + 1
\* Field(default_factory=lambda: str(uuid.uuid4()))
NewInstrumentalId == nextId.instrumentals

\* A seed that skips delete_many.
SeedDatabaseAppend ==
    /\ Seeded < MaxSeeds
    /\ instrumentals' = instrumentals \o
          [k \in 1..Len(SAMPLE_INSTRUMENTALS) |->
              Instrumental(NewInstrumentalId + k - 1, SAMPLE_INSTRUMENTALS[k])]
    /\ nextId' = [nextId EXCEPT !.instrumentals = @ + Len(SAMPLE_INSTRUMENTALS)]
    /\ resp' = Ok("seed_database", <<>>, [seeded |-> Len(SAMPLE_INSTRUMENTALS)])
    /\ UNCHANGED <<users, playlists, subscriptions, now, reqs>>

\* POST /seed
SeedDatabase ==
    /\ Seeded < MaxSeeds
    /\ LET emptied == SelectSeq(instrumentals, LAMBDA d : ~Matches(d, <<>>))
           seeded == [k \in 1..Len(SAMPLE_INSTRUMENTALS) |->
                        Instrumental(NewInstrumentalId + k - 1, SAMPLE_INSTRUMENTALS[k])]
       IN  instrumentals' = emptied \o seeded
    /\ nextId' = [nextId EXCEPT !.instrumentals = @ + Len(SAMPLE_INSTRUMENTALS)]
    /\ resp' = Ok("seed_database", <<>>, [seeded |-> Len(SAMPLE_INSTRUMENTALS)])
    /\ UNCHANGED <<users, playlists, subscriptions, now, reqs>>

\* {"$regex": search, "$options": "i"} on a title, for search terms made of
\* letters only: the title contains the term, letter case aside.  Casefold
\* spells out the characters of the titles and search terms that occur here, in
\* lower case.
Casefold(s) ==
    CASE s = "Mawla Ya Salli - Peaceful" -> <<"m", "a", "w", "l", "a", " ", "y", "a", " ", "s", "a", "l", "l", "i", " ", "-", " ", "p", "e", "a", "c", "e", "f", "u", "l">>
      [] s = "Nasheed of Dawn" -> <<"n", "a", "s", "h", "e", "e", "d", " ", "o", "f", " ", "d", "a", "w", "n">>
      [] s = "Morning Dhikr" -> <<"m", "o", "r", "n", "i", "n", "g", " ", "d", "h", "i", "k", "r">>
      [] s = "Peaceful Heart" -> <<"p", "e", "a", "c", "e", "f", "u", "l", " ", "h", "e", "a", "r", "t">>
      [] s = "Blessed Sunrise" -> <<"b", "l", "e", "s", "s", "e", "d", " ", "s", "u", "n", "r", "i", "s", "e">>
      [] s = "Gentle Breeze" -> <<"g", "e", "n", "t", "l", "e", " ", "b", "r", "e", "e", "z", "e">>
      [] s = "Silent Prayer" -> <<"s", "i", "l", "e", "n", "t", " ", "p", "r", "a", "y", "e", "r">>
      [] s = "Ya Sahib al-Taj" -> <<"y", "a", " ", "s", "a", "h", "i", "b", " ", "a", "l", "-", "t", "a", "j">>
      [] s = "Drums of Devotion" -> <<"d", "r", "u", "m", "s", " ", "o", "f", " ", "d", "e", "v", "o", "t", "i", "o", "n">>
      [] s = "Energetic Praise" -> <<"e", "n", "e", "r", "g", "e", "t", "i", "c", " ", "p", "r", "a", "i", "s", "e">>
      [] s = "Sacred Rhythm" -> <<"s", "a", "c", "r", "e", "d", " ", "r", "h", "y", "t", "h", "m">>
      [] s = "Night of Peace" -> <<"n", "i", "g", "h", "t", " ", "o", "f", " ", "p", "e", "a", "c", "e">>
      [] s = "Joyful Celebration" -> <<"j", "o", "y", "f", "u", "l", " ", "c", "e", "l", "e", "b", "r", "a", "t", "i", "o", "n">>
      [] s = "Soft Meditation" -> <<"s", "o", "f", "t", " ", "m", "e", "d", "i", "t", "a", "t", "i", "o", "n">>
      [] s = "Divine Harmony" -> <<"d", "i", "v", "i", "n", "e", " ", "h", "a", "r", "m", "o", "n", "y">>
      [] s = "Evening Calm" -> <<"e", "v", "e", "n", "i", "n", "g", " ", "c", "a", "l", "m">>
      [] s = "War Drums" -> <<"w", "a", "r", " ", "d", "r", "u", "m", "s">>
      [] s = "Retitled" -> <<"r", "e", "t", "i", "t", "l", "e", "d">>
      [] s = "DRUM" -> <<"d", "r", "u", "m">>
      [] s = "" -> <<>>

Contains(hay, needle) ==
    \E i \in 0..(Len(hay) - Len(needle)) : SubSeq(hay, i + 1, i + Len(needle)) = needle

RegexSearch(search, title) == Contains(Casefold(title), Casefold(search))

\* A query that takes the sentinel "All" for a mood.
ListQueryAllIsMood(mood, is_premium, search) ==
    LET keys == (IF mood # None /\ mood[1] # "" THEN {"mood"} ELSE {})
                \cup (IF is_premium # None THEN {"is_premium"} ELSE {})
                \cup (IF search # None /\ search[1] # "" THEN {"title"} ELSE {})
    IN  [k \in keys |-> IF k = "mood" THEN mood[1]
                        ELSE IF k = "is_premium" THEN is_premium[1]
                        ELSE [regex |-> search[1], options |-> "i"]]

\* get_instrumentals: the query document built from the parameters
ListQuery(mood, is_premium, search) ==
    LET keys == (IF mood # None /\ mood[1] # "" /\ mood[1] # "All" THEN {"mood"} ELSE {})
                \cup (IF is_premium # None THEN {"is_premium"} ELSE {})
                \cup (IF search # None /\ search[1] # "" THEN {"title"} ELSE {})
    IN  [k \in keys |-> IF k = "mood" THEN mood[1]
                        ELSE IF k = "is_premium" THEN is_premium[1]
                        ELSE [regex |-> search[1], options |-> "i"]]

MatchesQuery(doc, query) ==
    \A k \in DOMAIN query :
        IF k = "title" THEN RegexSearch(query[k].regex, doc[k]) ELSE doc[k] = query[k]

\* GET /instrumentals
GetInstrumentals(mood, is_premium, search) ==
    LET query == ListQuery(mood, is_premium, search)
        hits == SelectSeq(instrumentals, LAMBDA d : MatchesQuery(d, query))
    IN  /\ resp' = Ok("get_instrumentals", <<mood, is_premium, search>>,
                      SubSeq(hits, 1, IF Len(hits) < ListLimit THEN Len(hits) ELSE ListLimit))
        /\ UNCHANGED <<instrumentals, users, playlists, subscriptions, nextId, now, reqs>>

\* GET /instrumentals/featured
GetFeaturedInstrumentals ==
    /\ resp' = Ok("get_featured_instrumentals", <<>>,
                  Find(instrumentals, [is_featured |-> TRUE], FeaturedLimit))
    /\ UNCHANGED <<instrumentals, users, playlists, subscriptions, nextId, now, reqs>>

\* GET /instrumentals/{instrumental_id}
GetInstrumental(id) ==
    LET instrumental == FindOne(instrumentals, [id |-> id])
    IN  /\ resp' = IF instrumental = None THEN Err("get_instrumental", <<id>>, 404)
                   ELSE Ok("get_instrumental", <<id>>, instrumental[1])
        /\ UNCHANGED <<instrumentals, users, playlists, subscriptions, nextId, now, reqs>>

\* POST /instrumentals
CreateInstrumental(data) ==
    /\ Created < MaxCreates
    /\ LET instrumental == Instrumental(NewInstrumentalId, data)
       IN  /\ instrumentals' = InsertOne(instrumentals, instrumental)
           /\ resp' = Ok("create_instrumental", <<data>>, instrumental)
    /\ nextId' = [nextId EXCEPT !.instrumentals = @ + 1]
    /\ UNCHANGED <<users, playlists, subscriptions, now, reqs>>

Truthy(k, v) ==
    IF k \in {"is_premium", "is_featured"} THEN v
    ELSE IF k \in {"duration", "file_size", "preview_start", "preview_end"} THEN v # 0
    ELSE v # ""
UpdateDataTruthy(data) ==
    [k \in {f \in DOMAIN data : data[f] # None /\ Truthy(f, data[f][1])} |->
        IF k \in OptionalFields THEN data[k] ELSE data[k][1]]
\* update_data = {k: v for k, v in data.dict().items() if v is not None}
UpdateData(data) ==
    [k \in {f \in DOMAIN data : data[f] # None} |->
        IF k \in OptionalFields THEN data[k] ELSE data[k][1]]

\* PUT /instrumentals/{instrumental_id}
UpdateInstrumental(id, data) ==
    LET update_data == UpdateData(data)
        updated == UpdateOne(instrumentals, [id |-> id], [set |-> update_data])
    IN  IF DOMAIN update_data = {}
        THEN /\ resp' = Err("update_instrumental", <<id, data>>, 400)
             /\ UNCHANGED <<instrumentals, users, playlists, subscriptions, nextId, now, reqs>>
        ELSE IF MatchedCount(instrumentals, [id |-> id]) = 0
        THEN /\ instrumentals' = updated
             /\ resp' = Err("update_instrumental", <<id, data>>, 404)
             /\ UNCHANGED <<users, playlists, subscriptions, nextId, now, reqs>>
        ELSE /\ instrumentals' = updated
             /\ resp' = Ok("update_instrumental", <<id, data>>,
                           FindOne(updated, [id |-> id])[1])
             /\ UNCHANGED <<users, playlists, subscriptions, nextId, now, reqs>>

\* A delete that also takes the id out of every favorites and track_ids.
DeleteInstrumentalCascade(id) ==
    /\ instrumentals' = DeleteOne(instrumentals, [id |-> id])
    /\ users' = [i \in DOMAIN users |->
                    ApplyUpdate(users[i], [pull |-> [favorites |-> id]])]
    /\ playlists' = [i \in DOMAIN playlists |->
                        ApplyUpdate(playlists[i], [pull |-> [track_ids |-> id]])]
    /\ resp' = IF MatchedCount(instrumentals, [id |-> id]) = 0
               THEN Err("delete_instrumental", <<id>>, 404)
               ELSE Ok("delete_instrumental", <<id>>, None)
    /\ UNCHANGED <<subscriptions, nextId, now, reqs>>

\* DELETE /instrumentals/{instrumental_id}
DeleteInstrumental(id) ==
    /\ instrumentals' = DeleteOne(instrumentals, [id |-> id])
    /\ resp' = IF MatchedCount(instrumentals, [id |-> id]) = 0
               THEN Err("delete_instrumental", <<id>>, 404)
               ELSE Ok("delete_instrumental", <<id>>, None)
    /\ UNCHANGED <<users, playlists, subscriptions, nextId, now, reqs>>

PlayCountSet == [set |-> [play_count |-> 1]]
\* {"$inc": {"play_count": 1}}
PlayCountInc == [inc |-> [play_count |-> 1]]

\* POST /instrumentals/{instrumental_id}/play
IncrementPlayCount(id) ==
    /\ \A i \in DOMAIN instrumentals :
          instrumentals[i].id = id => instrumentals[i].play_count < MaxPlays
    /\ instrumentals' = UpdateOne(instrumentals, [id |-> id], PlayCountInc)
    /\ resp' = Ok("increment_play_count", <<id>>, None)
    /\ UNCHANGED <<users, playlists, subscriptions, nextId, now, reqs>>

\* The clock between two requests.
Tick(d) ==
    /\ now + d <= MaxTime
    /\ now' = now + d
    /\ UNCHANGED <<instrumentals, users, playlists, subscriptions, nextId, resp, reqs>>

\* ---------------------------------------------------------- specification
Init ==
    /\ instrumentals = <<>>
    /\ users = <<>>
    /\ playlists = <<>>
    /\ subscriptions = <<>>
    /\ nextId = [instrumentals |-> 1, users |-> 1, playlists |-> 1, subscriptions |-> 1]
    /\ now = 0
    /\ resp = Ok("root", <<>>, None)
    /\ reqs = <<>>

\* Subscription service, each request run to completion before the next starts.
NextSub ==
    \/ \E d \in DeviceIds : CreateOrGetUser(d)
    \/ \E u \in UserIds, p \in Plans : Subscribe(u, p)
    \/ \E u \in UserIds : GetSubscriptionStatus(u)
    \/ \E u \in UserIds : RestorePurchase(u)
    \/ \E d \in TickSteps : Tick(d)

SpecSub == Init /\ [][NextSub]_vars

\* The subscription service when callers subscribe only users that exist.
NextEntitled ==
    \/ \E d \in DeviceIds : CreateOrGetUser(d)
    \/ \E u \in UserIds, p \in Plans :
          FindOne(users, [id |-> u]) # None /\ Subscribe(u, p)
    \/ \E u \in UserIds : GetSubscriptionStatus(u)
    \/ \E u \in UserIds : RestorePurchase(u)
    \/ \E d \in TickSteps : Tick(d)

SpecEntitled == Init /\ [][NextEntitled]_vars

\* Catalog service, each request run to completion before the next starts.
NextCatalog ==
    \/ SeedDatabase
    \/ \E id \in TrackIds : GetInstrumental(id)
    \/ \E data \in CreatePayloads : CreateInstrumental(data)
    \/ \E id \in TrackIds, data \in Patches : UpdateInstrumental(id, data)
    \/ \E id \in TrackIds : DeleteInstrumental(id)
    \/ \E id \in TrackIds : IncrementPlayCount(id)

SpecCatalog == Init /\ [][NextCatalog]_vars

\* Catalog listing over catalogs that were seeded, added to and deleted from.
NextList ==
    \/ SeedDatabase
    \/ \E mood \in Moods, is_premium \in PremiumFlags, search \in Searches :
          GetInstrumentals(mood, is_premium, search)
    \/ GetFeaturedInstrumentals
    \/ \E data \in CreatePayloads : CreateInstrumental(data)
    \/ \E id \in TrackIds : DeleteInstrumental(id)

SpecList == Init /\ [][NextList]_vars

\* Reseeding, with the requests that fill the catalog beforehand and those that
\* fill the other collections.
NextSeed ==
    \/ SeedDatabase
    \/ GetInstrumentals(None, None, None)
    \/ CreateInstrumental(FreePayload)
    \/ \E d \in DeviceIds : CreateOrGetUser(d)
    \/ \E data \in PlaylistPayloads : CreatePlaylist(data)
    \/ \E u \in UserIds, plan \in Plans : Subscribe(u, plan)

SpecSeed == Init /\ [][NextSeed]_vars

\* Favorites service with the identity and catalog requests it depends on.
NextFavorites ==
    \/ \E d \in DeviceIds : CreateOrGetUser(d)
    \/ \E u \in UserIds : GetUser(u)
    \/ \E u \in UserIds : GetFavorites(u)
    \/ \E u \in UserIds, t \in TrackIds : AddToFavorites(u, t)
    \/ \E u \in UserIds, t \in TrackIds : RemoveFromFavorites(u, t)
    \/ \E u \in UserIds, t \in TrackIds : CheckFavorite(u, t)
    \/ \E data \in CreatePayloads : CreateInstrumental(data)
    \/ \E id \in TrackIds : DeleteInstrumental(id)

SpecFavorites == Init /\ [][NextFavorites]_vars

\* Playlist service with the catalog requests it depends on.
NextPlaylists ==
    \/ \E u \in UserIds : GetUserPlaylists(u)
    \/ \E pl \in PlaylistIds : GetPlaylist(pl)
    \/ \E data \in PlaylistPayloads : CreatePlaylist(data)
    \/ \E pl \in PlaylistIds, data \in PlaylistPatches : UpdatePlaylist(pl, data)
    \/ \E pl \in PlaylistIds : DeletePlaylist(pl)
    \/ \E pl \in PlaylistIds, t \in TrackIds : AddTrackToPlaylist(pl, t)
    \/ \E pl \in PlaylistIds, t \in TrackIds : RemoveTrackFromPlaylist(pl, t)
    \/ CreateInstrumental(FreePayload)
    \/ \E id \in TrackIds : DeleteInstrumental(id)
    \/ \E d \in TickSteps : Tick(d)

SpecPlaylists == Init /\ [][NextPlaylists]_vars

\* Favorites and playlists that reference catalog records which get deleted.
NextLibrary ==
    \/ \E d \in DeviceIds : CreateOrGetUser(d)
    \/ \E u \in UserIds, t \in TrackIds : AddToFavorites(u, t)
    \/ \E u \in UserIds : GetFavorites(u)
    \/ \E u \in UserIds, t \in TrackIds : CheckFavorite(u, t)
    \/ \E data \in PlaylistPayloads : CreatePlaylist(data)
    \/ \E pl \in PlaylistIds, t \in TrackIds : AddTrackToPlaylist(pl, t)
    \/ \E pl \in PlaylistIds : GetPlaylist(pl)
    \/ CreateInstrumental(FreePayload)
    \/ \E id \in TrackIds : DeleteInstrumental(id)

SpecLibrary == Init /\ [][NextLibrary]_vars

\* Track resolution of a playlist, started from the stores that requests leave
\* behind: a catalog of size created tracks of which those in present remain,
\* and one playlist whose track_ids were added in the given order.  The small
\* cases are all of size MaxDetail; the large ones have one track more than a
\* catalog query returns.
InjectiveSeqs(S) ==
    {s \in UNION {[1..k -> S] : k \in 0..Cardinality(S)} :
        \A i, j \in DOMAIN s : s[i] = s[j] => i = j}

DetailCases ==
    {[size |-> MaxDetail, present |-> S, track_ids |-> s] :
        S \in SUBSET (1..MaxDetail), s \in InjectiveSeqs(1..MaxDetail)}
    \cup
    {[size |-> TrackListLimit + 1, present |-> 1..(TrackListLimit + 1), track_ids |-> s] :
        s \in {[i \in 1..(TrackListLimit + 1) |-> i],
               [i \in 1..(TrackListLimit + 1) |-> TrackListLimit + 2 - i]}}

InitDetail ==
    /\ now = 0
    /\ \E c \in DetailCases :
          /\ instrumentals = SelectSeq([i \in 1..c.size |-> Instrumental(i, FreePayload)],
                                       LAMBDA d : d.id \in c.present)
          /\ playlists = <<[Playlist(1, [user_id |-> 1, name |-> "Mix"])
                              EXCEPT !.track_ids = c.track_ids]>>
          /\ nextId = [instrumentals |-> c.size + 1, users |-> 1,
                       playlists |-> 2, subscriptions |-> 1]
    /\ users = <<>>
    /\ subscriptions = <<>>
    /\ resp = Ok("root", <<>>, None)
    /\ reqs = <<>>

NextDetail ==
    \/ \E pl \in PlaylistIds : GetPlaylist(pl)
    \/ \E id \in 1..MaxDetail : DeleteInstrumental(id)

SpecDetail == InitDetail /\ [][NextDetail]_vars

\* ------------------------------------------- requests in flight (interleaved)
\* A request awaits each store call, and requests in flight interleave at those
\* awaits: reqs holds every request started so far with the store call it is at
\* (pc), what its lookup returned (found) and, once done, its response.
Request(op, arg) == [op |-> op, arg |-> arg, pc |-> "start", found |-> None, resp |-> None]

StartRequest(op, arg) ==
    /\ reqs' = Append(reqs, Request(op, arg))
    /\ UNCHANGED <<instrumentals, users, playlists, subscriptions, nextId, now, resp>>

Done(r, response) == [r EXCEPT !.pc = "done", !.resp = Some(response)]

\* subscribe: existing = await db.subscriptions.find_one(...); if existing: return
SubscribeFind(i) ==
    /\ reqs[i].op = "subscribe" /\ reqs[i].pc = "start"
    /\ LET existing == FindActiveSub(subscriptions, reqs[i].arg[1])
       IN  reqs' = [reqs EXCEPT ![i] =
                      IF existing # None THEN Done(@, Ok("subscribe", @.arg, existing[1]))
                      ELSE [@ EXCEPT !.pc = "insert"]]
    /\ UNCHANGED <<instrumentals, users, playlists, subscriptions, nextId, now, resp>>

SubscribeInsertRechecked(i) ==
    /\ reqs[i].op = "subscribe" /\ reqs[i].pc = "insert"
    /\ nextId.subscriptions <= MaxSubs
    /\ LET existing == FindActiveSub(subscriptions, reqs[i].arg[1])
           subscription == Subscription(nextId.subscriptions, reqs[i].arg[1], reqs[i].arg[2],
                                        PlanPrice(reqs[i].arg[2]), now + PlanDays(reqs[i].arg[2]))
       IN  IF existing # None
           THEN /\ reqs' = [reqs EXCEPT ![i] = Done(@, Ok("subscribe", @.arg, existing[1]))]
                /\ UNCHANGED <<subscriptions, nextId>>
           ELSE /\ subscriptions' = InsertOne(subscriptions, subscription)
                /\ reqs' = [reqs EXCEPT ![i] = [@ EXCEPT !.pc = "update_user",
                                                          !.found = Some(subscription)]]
                /\ nextId' = [nextId EXCEPT !.subscriptions = @ + 1]
    /\ UNCHANGED <<instrumentals, users, playlists, now, resp>>
\* subscribe: subscription = Subscription(...); await db.subscriptions.insert_one(...)
SubscribeInsert(i) ==
    /\ reqs[i].op = "subscribe" /\ reqs[i].pc = "insert"
    /\ nextId.subscriptions <= MaxSubs
    /\ LET subscription == Subscription(nextId.subscriptions, reqs[i].arg[1], reqs[i].arg[2],
                                        PlanPrice(reqs[i].arg[2]), now + PlanDays(reqs[i].arg[2]))
       IN  /\ subscriptions' = InsertOne(subscriptions, subscription)
           /\ reqs' = [reqs EXCEPT ![i] = [@ EXCEPT !.pc = "update_user",
                                                     !.found = Some(subscription)]]
    /\ nextId' = [nextId EXCEPT !.subscriptions = @ + 1]
    /\ UNCHANGED <<instrumentals, users, playlists, now, resp>>

\* subscribe: await db.users.update_one(... is_subscribed True); return subscription
SubscribeUpdateUser(i) ==
    /\ reqs[i].op = "subscribe" /\ reqs[i].pc = "update_user"
    /\ users' = SetSubscribed(users, reqs[i].arg[1], TRUE)
    /\ reqs' = [reqs EXCEPT ![i] = Done(@, Ok("subscribe", @.arg, @.found[1]))]
    /\ UNCHANGED <<instrumentals, playlists, subscriptions, nextId, now, resp>>

\* get_subscription_status: subscription = await db.subscriptions.find_one(...)
StatusFind(i) ==
    /\ reqs[i].op = "get_subscription_status" /\ reqs[i].pc = "start"
    /\ LET subscription == FindActiveSub(subscriptions, reqs[i].arg[1])
       IN  reqs' = [reqs EXCEPT ![i] =
                      IF subscription = None
                      THEN Done(@, Ok(@.op, @.arg, [is_subscribed |-> FALSE, subscription |-> None]))
                      ELSE IF Expired(subscription[1], now)
                      THEN [@ EXCEPT !.pc = "deactivate", !.found = subscription]
                      ELSE Done(@, Ok(@.op, @.arg, [is_subscribed |-> TRUE,
                                                    subscription |-> subscription]))]
    /\ UNCHANGED <<instrumentals, users, playlists, subscriptions, nextId, now, resp>>

\* get_subscription_status: await db.subscriptions.update_one(... is_active False)
StatusDeactivate(i) ==
    /\ reqs[i].op = "get_subscription_status" /\ reqs[i].pc = "deactivate"
    /\ subscriptions' = Deactivate(subscriptions, reqs[i].found[1].id)
    /\ reqs' = [reqs EXCEPT ![i].pc = "update_user"]
    /\ UNCHANGED <<instrumentals, users, playlists, nextId, now, resp>>

\* get_subscription_status: await db.users.update_one(... is_subscribed False); return
StatusUpdateUser(i) ==
    /\ reqs[i].op = "get_subscription_status" /\ reqs[i].pc = "update_user"
    /\ users' = SetSubscribed(users, reqs[i].arg[1], FALSE)
    /\ reqs' = [reqs EXCEPT ![i] =
                  Done(@, Ok(@.op, @.arg, [is_subscribed |-> FALSE, subscription |-> None]))]
    /\ UNCHANGED <<instrumentals, playlists, subscriptions, nextId, now, resp>>

\* create_or_get_user: existing = await db.users.find_one(...); if existing: return
UserFind(i) ==
    /\ reqs[i].op = "create_or_get_user" /\ reqs[i].pc = "start"
    /\ LET existing == FindOne(users, [device_id |-> reqs[i].arg[1]])
       IN  reqs' = [reqs EXCEPT ![i] =
                      IF existing # None THEN Done(@, Ok(@.op, @.arg, existing[1]))
                      ELSE [@ EXCEPT !.pc = "insert"]]
    /\ UNCHANGED <<instrumentals, users, playlists, subscriptions, nextId, now, resp>>

\* create_or_get_user: user = User(...); await db.users.insert_one(...); return user
UserInsert(i) ==
    /\ reqs[i].op = "create_or_get_user" /\ reqs[i].pc = "insert"
    /\ LET user == User(nextId.users, reqs[i].arg[1])
       IN  /\ users' = InsertOne(users, user)
           /\ reqs' = [reqs EXCEPT ![i] = Done(@, Ok(@.op, @.arg, user))]
    /\ nextId' = [nextId EXCEPT !.users = @ + 1]
    /\ UNCHANGED <<instrumentals, playlists, subscriptions, now, resp>>

\* Subscription and identity requests interleaved at their store calls.
NextConc ==
    \/ /\ Len(reqs) < MaxReqs
       /\ \/ \E u \in UserIds, p \in Plans : StartRequest("subscribe", <<u, p>>)
          \/ \E u \in UserIds : StartRequest("get_subscription_status", <<u>>)
          \/ \E d \in DeviceIds : StartRequest("create_or_get_user", <<d>>)
    \/ \E i \in DOMAIN reqs : SubscribeFind(i)
    \/ \E i \in DOMAIN reqs : SubscribeInsert(i)
    \/ \E i \in DOMAIN reqs : SubscribeUpdateUser(i)
    \/ \E i \in DOMAIN reqs : StatusFind(i)
    \/ \E i \in DOMAIN reqs : StatusDeactivate(i)
    \/ \E i \in DOMAIN reqs : StatusUpdateUser(i)
    \/ \E i \in DOMAIN reqs : UserFind(i)
    \/ \E i \in DOMAIN reqs : UserInsert(i)
    \/ \E d \in TickSteps : Tick(d)

SpecConc == Init /\ [][NextConc]_vars

\* create_instrumental: await db.instrumentals.insert_one(...); return instrumental
CreateInsert(i) ==
    /\ reqs[i].op = "create_instrumental" /\ reqs[i].pc = "start"
    /\ Created < MaxCreates
    /\ LET instrumental == Instrumental(NewInstrumentalId, reqs[i].arg[1])
       IN  /\ instrumentals' = InsertOne(instrumentals, instrumental)
           /\ reqs' = [reqs EXCEPT ![i] = Done(@, Ok(@.op, @.arg, instrumental))]
    /\ nextId' = [nextId EXCEPT !.instrumentals = @ + 1]
    /\ UNCHANGED <<users, playlists, subscriptions, now, resp>>

\* increment_play_count: await db.instrumentals.update_one(... $inc ...); return
\* (found keeps the matched_count the handler drops)
PlayUpdate(i) ==
    /\ reqs[i].op = "increment_play_count" /\ reqs[i].pc = "start"
    /\ instrumentals' = UpdateOne(instrumentals, [id |-> reqs[i].arg[1]], PlayCountInc)
    /\ reqs' = [reqs EXCEPT ![i] =
                  Done([@ EXCEPT !.found = Some(MatchedCount(instrumentals,
                                                             [id |-> reqs[i].arg[1]]))],
                       Ok(@.op, @.arg, None))]
    /\ UNCHANGED <<users, playlists, subscriptions, nextId, now, resp>>

\* update_instrumental: the empty-payload test, then
\* result = await db.instrumentals.update_one(... $set ...), 404 on no match
UpdateSet(i) ==
    /\ reqs[i].op = "update_instrumental" /\ reqs[i].pc = "start"
    /\ LET id == reqs[i].arg[1]
           update_data == UpdateData(reqs[i].arg[2])
       IN  IF DOMAIN update_data = {}
           THEN /\ reqs' = [reqs EXCEPT ![i] = Done(@, Err(@.op, @.arg, 400))]
                /\ UNCHANGED instrumentals
           ELSE /\ instrumentals' = UpdateOne(instrumentals, [id |-> id],
                                              [set |-> update_data])
                /\ reqs' = [reqs EXCEPT ![i] =
                              IF MatchedCount(instrumentals, [id |-> id]) = 0
                              THEN Done(@, Err(@.op, @.arg, 404))
                              ELSE [@ EXCEPT !.pc = "reread"]]
    /\ UNCHANGED <<users, playlists, subscriptions, nextId, now, resp>>

\* update_instrumental: instrumental = await db.instrumentals.find_one(...);
\* return Instrumental(**instrumental), which raises (500) when it is gone
UpdateReread(i) ==
    /\ reqs[i].op = "update_instrumental" /\ reqs[i].pc = "reread"
    /\ LET instrumental == FindOne(instrumentals, [id |-> reqs[i].arg[1]])
       IN  reqs' = [reqs EXCEPT ![i] =
                      IF instrumental = None THEN Done(@, Err(@.op, @.arg, 500))
                      ELSE Done(@, Ok(@.op, @.arg, instrumental[1]))]
    /\ UNCHANGED <<instrumentals, users, playlists, subscriptions, nextId, now, resp>>

\* delete_instrumental: result = await db.instrumentals.delete_one(...)
DeleteCall(i) ==
    /\ reqs[i].op = "delete_instrumental" /\ reqs[i].pc = "start"
    /\ instrumentals' = DeleteOne(instrumentals, [id |-> reqs[i].arg[1]])
    /\ reqs' = [reqs EXCEPT ![i] =
                  IF MatchedCount(instrumentals, [id |-> reqs[i].arg[1]]) = 0
                  THEN Done(@, Err(@.op, @.arg, 404))
                  ELSE Done(@, Ok(@.op, @.arg, None))]
    /\ UNCHANGED <<users, playlists, subscriptions, nextId, now, resp>>

\* Catalog requests interleaved at their store calls.
NextPlay ==
    \/ /\ Len(reqs) < MaxPlayReqs
       /\ \/ \E data \in CreatePayloads : StartRequest("create_instrumental", <<data>>)
          \/ \E id \in TrackIds : StartRequest("increment_play_count", <<id>>)
          \/ \E id \in TrackIds, data \in Patches :
                StartRequest("update_instrumental", <<id, data>>)
          \/ \E id \in TrackIds : StartRequest("delete_instrumental", <<id>>)
    \/ \E i \in DOMAIN reqs : CreateInsert(i)
    \/ \E i \in DOMAIN reqs : PlayUpdate(i)
    \/ \E i \in DOMAIN reqs : UpdateSet(i)
    \/ \E i \in DOMAIN reqs : UpdateReread(i)
    \/ \E i \in DOMAIN reqs : DeleteCall(i)

SpecPlay == Init /\ [][NextPlay]_vars

\* ------------------------------------------------- subscription properties
ActiveRows(user_id) ==
    {i \in DOMAIN subscriptions :
        subscriptions[i].user_id = user_id /\ subscriptions[i].is_active}
RowsOf(user_id) == {i \in DOMAIN subscriptions : subscriptions[i].user_id = user_id}
PastExpiry(i) == subscriptions[i].expires_at[1] < now
UserDocs(user_id) == {i \in DOMAIN users : users[i].id = user_id}

\* C1: with requests interleaved at their store calls, a Subscribe that found no
\* active row at its lookup inserts an active row for its user_id at its insert
\* step whatever the store holds by then (nothing is re-checked), so two
\* Subscribe requests for one user_id can both insert.
C1_InsertAfterStaleCheck ==
    [][\A i \in DOMAIN reqs :
          reqs[i].op = "subscribe" /\ reqs[i].pc = "insert" /\ reqs'[i].pc # "insert" =>
            /\ Len(subscriptions') = Len(subscriptions) + 1
            /\ subscriptions'[Len(subscriptions')].user_id = reqs[i].arg[1]
            /\ subscriptions'[Len(subscriptions')].is_active
            /\ \A k \in DOMAIN subscriptions : subscriptions'[k] = subscriptions[k]
    ]_vars

\* Two Subscribe requests for one user_id have both inserted: two active rows.
C1_Witness ==
    \E u \in UserIds :
        /\ Cardinality(ActiveRows(u)) = 2
        /\ \E i, j \in DOMAIN reqs :
              /\ i # j
              /\ reqs[i].op = "subscribe" /\ reqs[j].op = "subscribe"
              /\ reqs[i].arg[1] = u /\ reqs[j].arg[1] = u
              /\ reqs[i].pc = "done" /\ reqs[j].pc = "done"
              /\ reqs[i].resp[1].body.id # reqs[j].resp[1].body.id

\* C2: with requests run one after the other, no user_id ever has two
\* subscription rows with is_active = TRUE.
C2_AtMostOneActive == \A u \in UserIds : Cardinality(ActiveRows(u)) <= 1

\* A user_id that subscribed, expired, and subscribed again: two rows, one active.
C2_Witness ==
    \E u \in UserIds : Cardinality(RowsOf(u)) = 2 /\ Cardinality(ActiveRows(u)) = 1

\* C3: GetStatus on a user_id whose active row is past its expiry answers
\* is_subscribed = FALSE, flips that row (and nothing else in subscriptions) to
\* inactive and clears the user's flag, after which no active row is left, and a
\* GetStatus that finds no active row answers FALSE and writes nothing; a row
\* turns inactive only in a GetStatus step of its user_id and only past expiry.
C3_LazyExpiry ==
    [][/\ \A u \in UserIds :
            GetSubscriptionStatus(u) =>
              /\ \A i \in ActiveRows(u) : PastExpiry(i) /\ i = Min(ActiveRows(u)) =>
                    /\ resp'.body = [is_subscribed |-> FALSE, subscription |-> None]
                    /\ subscriptions' = [subscriptions EXCEPT ![i].is_active = FALSE]
                    /\ \A k \in DOMAIN subscriptions' :
                          ~(subscriptions'[k].user_id = u /\ subscriptions'[k].is_active)
                    /\ Len(users') = Len(users)
                    /\ \A k \in DOMAIN users :
                          users'[k] = IF users[k].id = u
                                      THEN [users[k] EXCEPT !.is_subscribed = FALSE]
                                      ELSE users[k]
              /\ ActiveRows(u) = {} =>
                    /\ resp'.body = [is_subscribed |-> FALSE, subscription |-> None]
                    /\ UNCHANGED store
       /\ \A i \in DOMAIN subscriptions :
            subscriptions[i].is_active /\ ~subscriptions'[i].is_active =>
              /\ PastExpiry(i)
              /\ GetSubscriptionStatus(subscriptions[i].user_id)
    ]_vars

\* GetStatus has just flipped an expired row of an existing user.
C3_Witness ==
    /\ resp.op = "get_subscription_status"
    /\ resp.body.is_subscribed = FALSE
    /\ \E k \in DOMAIN users :
          /\ users[k].id = resp.arg[1]
          /\ ~users[k].is_subscribed
          /\ \E i \in RowsOf(users[k].id) : ~subscriptions[i].is_active /\ PastExpiry(i)
    /\ ActiveRows(resp.arg[1]) = {}

\* An expired row nobody asked about is still active in storage.
C3_WitnessUnread == \E i \in DOMAIN subscriptions : subscriptions[i].is_active /\ PastExpiry(i)

\* C4: while a row of user_id is active (expired or not), Subscribe with any plan
\* returns the first such row and changes nothing; a row is inserted only by a
\* Subscribe for a user_id that has no active row.
C4_SubscribeIdempotent ==
    [][/\ \A u \in UserIds, p \in Plans :
            Subscribe(u, p) /\ ActiveRows(u) # {} =>
              /\ resp'.body = subscriptions[Min(ActiveRows(u))]
              /\ UNCHANGED <<store, nextId>>
       /\ Len(subscriptions') # Len(subscriptions) =>
            \E u \in UserIds, p \in Plans :
              /\ Subscribe(u, p)
              /\ ActiveRows(u) = {}
              /\ Len(subscriptions') = Len(subscriptions) + 1
              /\ subscriptions'[Len(subscriptions')].user_id = u
              /\ subscriptions'[Len(subscriptions')].is_active
              /\ \A i \in DOMAIN subscriptions : subscriptions'[i] = subscriptions[i]
    ]_vars

\* Subscribe asked for another plan on an active row already past its expiry and
\* got the stored row back.
C4_Witness ==
    /\ resp.op = "subscribe"
    /\ resp.body.plan # resp.arg[2]
    /\ resp.body.expires_at[1] < now
    /\ \E i \in ActiveRows(resp.arg[1]) : subscriptions[i] = resp.body

\* C5: Restore writes nothing, whatever the store holds; with an active row past
\* its expiry it answers restored = TRUE with that row, where GetStatus on the
\* same state answers is_subscribed = FALSE.
C5_RestoreReadOnly ==
    [][\A u \in UserIds :
          /\ RestorePurchase(u) => UNCHANGED <<store, nextId, now>>
          /\ \A i \in ActiveRows(u) : PastExpiry(i) /\ i = Min(ActiveRows(u)) =>
                /\ RestorePurchase(u) =>
                      resp'.body = [restored |-> TRUE, subscription |-> Some(subscriptions[i])]
                /\ GetSubscriptionStatus(u) => resp'.body.is_subscribed = FALSE
    ]_vars

\* Restore has just reported an expired row as restored.
C5_Witness ==
    /\ resp.op = "restore_purchase"
    /\ resp.body.restored
    /\ resp.body.subscription[1].expires_at[1] < now
    /\ \E i \in ActiveRows(resp.arg[1]) : subscriptions[i] = resp.body.subscription[1]

\* ------------------------------------------------------ catalog properties
Holds(id) == \E i \in DOMAIN instrumentals : instrumentals[i].id = id
HoldsNext(id) == \E i \in DOMAIN instrumentals' : instrumentals'[i].id = id

\* The favorites of the stored user user_id.
FavoritesOf(docs, user_id) == FindOne(docs, [id |-> user_id])[1].favorites
NoRepeat(s) == \A i, j \in DOMAIN s : s[i] = s[j] => i = j
Without(s, v) == SelectSeq(s, LAMBDA x : x # v)

\* C6: favorites is a set under Add and Remove.  No user's favorites ever names
\* an id twice.  Add on a missing user answers 404 and changes nothing; on an
\* existing user it succeeds, appends the id if it was absent and changes
\* nothing if it was present, so a second Add leaves it there once and the rest
\* as it was.  Remove on a missing user answers 404 and changes nothing; on an
\* existing user it succeeds and takes the id out, which changes nothing when
\* the id was not there.  Neither touches another user or another field.
C6_FavoritesIsSet ==
    [][/\ \A i \in DOMAIN users' : NoRepeat(users'[i].favorites)
       /\ \A u \in UserIds, t \in TrackIds :
            /\ AddToFavorites(u, t) =>
                 IF FindOne(users, [id |-> u]) = None
                 THEN resp'.status = 404 /\ users' = users
                 ELSE /\ resp'.status = 200
                      /\ FavoritesOf(users', u) =
                            IF t \in Range(FavoritesOf(users, u))
                            THEN FavoritesOf(users, u)
                            ELSE Append(FavoritesOf(users, u), t)
                      /\ Len(SelectSeq(FavoritesOf(users', u), LAMBDA x : x = t)) = 1
                      /\ Len(users') = Len(users)
                      /\ \A i \in DOMAIN users :
                            users'[i] = [users[i] EXCEPT !.favorites = users'[i].favorites]
                      /\ \A i \in DOMAIN users : users[i].id # u => users'[i] = users[i]
            /\ RemoveFromFavorites(u, t) =>
                 IF FindOne(users, [id |-> u]) = None
                 THEN resp'.status = 404 /\ users' = users
                 ELSE /\ resp'.status = 200
                      /\ FavoritesOf(users', u) = Without(FavoritesOf(users, u), t)
                      /\ t \notin Range(FavoritesOf(users, u)) => users' = users
                      /\ Len(users') = Len(users)
                      /\ \A i \in DOMAIN users :
                            users'[i] = [users[i] EXCEPT !.favorites = users'[i].favorites]
                      /\ \A i \in DOMAIN users : users[i].id # u => users'[i] = users[i]]_vars

\* An Add that succeeded on an id which is not the last of the user's favorites:
\* the id was already there when the Add ran, and it is there once.
C6_Witness ==
    /\ resp.op = "add_to_favorites" /\ resp.status = 200
    /\ FindOne(users, [id |-> resp.arg[1]]) # None
    /\ LET favorites == FavoritesOf(users, resp.arg[1])
       IN  /\ Len(favorites) = 2
           /\ favorites[1] = resp.arg[2]

\* A Remove that succeeded on an id the user's favorites did not hold.
C6_WitnessRemoveAbsent ==
    /\ resp.op = "remove_from_favorites" /\ resp.status = 200
    /\ FindOne(users, [id |-> resp.arg[1]]) # None
    /\ FavoritesOf(users, resp.arg[1]) = <<3 - resp.arg[2]>>

\* An Add refused for a user that does not exist.
C6_WitnessNoUser ==
    /\ resp.op = "add_to_favorites" /\ resp.status = 404
    /\ users # <<>>

\* The tracks GetDetail is to return for a list of track ids: the stored
\* instrumental of every id that has one, in the order of the list.
LiveTracks(track_ids) ==
    LET live == SelectSeq(track_ids, Holds)
    IN  [n \in DOMAIN live |-> FindOne(instrumentals, [id |-> live[n]])[1]]

\* C7: GetDetail of an existing playlist returns as tracks exactly the stored
\* instrumentals of those of its track_ids that the catalog holds, in track_ids
\* order: every referenced track that exists is returned, every missing one is
\* left out.
C7_DetailIsLiveSubsequence ==
    [][\A pl \in PlaylistIds :
          GetPlaylist(pl) /\ resp'.status = 200 =>
             resp'.body.tracks = LiveTracks(FindOne(playlists, [id |-> pl])[1].track_ids)]_vars

\* The same for playlists that reference no more stored instrumentals than one
\* catalog query returns.
C7_DetailWithinLimit ==
    [][\A pl \in PlaylistIds :
          GetPlaylist(pl) /\ resp'.status = 200 =>
             LET track_ids == FindOne(playlists, [id |-> pl])[1].track_ids
             IN  Len(LiveTracks(track_ids)) <= TrackListLimit =>
                    resp'.body.tracks = LiveTracks(track_ids)]_vars

\* GetDetail has answered for a playlist all of whose track ids are stored, one
\* more of them than a catalog query returns.
C7_Witness ==
    /\ resp.op = "get_playlist" /\ resp.status = 200
    /\ Len(resp.body.playlist.track_ids) = TrackListLimit + 1
    /\ \A n \in DOMAIN resp.body.playlist.track_ids : Holds(resp.body.playlist.track_ids[n])
    /\ Len(resp.body.tracks) = TrackListLimit

\* C8: Update with every field null answers 400 and leaves instrumentals as it
\* was, whether or not the id exists; with a non-null field it answers 404 on a
\* missing id and otherwise sets exactly the non-null fields of that record,
\* leaving its other fields and every other record as they were.
C8_UpdatePayload ==
    [][\A id \in TrackIds, data \in Patches :
          UpdateInstrumental(id, data) =>
            LET provided == {f \in DOMAIN data : data[f] # None}
            IN  /\ provided = {} => resp'.status = 400 /\ instrumentals' = instrumentals
                /\ provided # {} /\ ~Holds(id) =>
                      resp'.status = 404 /\ instrumentals' = instrumentals
                /\ provided # {} /\ Holds(id) =>
                      /\ resp'.status = 200
                      /\ Len(instrumentals') = Len(instrumentals)
                      /\ \A i \in DOMAIN instrumentals :
                            IF instrumentals[i].id = id
                            THEN \A f \in DOMAIN instrumentals[i] :
                                    instrumentals'[i][f] =
                                      IF f \notin provided THEN instrumentals[i][f]
                                      ELSE IF f \in OptionalFields THEN data[f]
                                      ELSE data[f][1]
                            ELSE instrumentals'[i] = instrumentals[i]
                /\ UNCHANGED <<users, playlists, subscriptions>>
    ]_vars

\* An Update whose only value is False went through on a premium record that has
\* been played, next to other records.
C8_Witness ==
    /\ resp.op = "update_instrumental" /\ resp.status = 200
    /\ resp.arg[2].is_premium = Some(FALSE)
    /\ resp.body.is_premium = FALSE
    /\ resp.body.preview_end # None
    /\ resp.body.play_count > 0
    /\ Len(instrumentals) > 1

\* The empty payload was refused for an id the catalog does not hold.
C8_WitnessEmpty ==
    /\ resp.op = "update_instrumental" /\ resp.status = 400
    /\ ~Holds(resp.arg[1])
    /\ instrumentals # <<>>

\* C9: Delete of a stored id removes that record and only it and answers 200,
\* Delete of an absent id answers 404 and changes nothing; GetById answers 404
\* exactly for the ids the catalog does not hold; and an id that has been handed
\* out and is gone never comes back, whatever runs later.
C9_DeletedStaysGone ==
    [][/\ \A id \in TrackIds :
            /\ DeleteInstrumental(id) /\ Holds(id) =>
                  /\ resp'.status = 200
                  /\ ~HoldsNext(id)
                  /\ Len(instrumentals') = Len(instrumentals) - 1
                  /\ \A i \in DOMAIN instrumentals :
                        instrumentals[i].id # id => HoldsNext(instrumentals[i].id)
            /\ DeleteInstrumental(id) /\ ~Holds(id) =>
                  resp'.status = 404 /\ UNCHANGED store
            /\ GetInstrumental(id) => (resp'.status = 404 <=> ~Holds(id))
       /\ \A id \in 1..(nextId.instrumentals - 1) : ~Holds(id) => ~HoldsNext(id)
    ]_vars

\* GetById answers 404 for an id that was handed out, after a Seed refilled the
\* catalog and a later Create added to it.
C9_Witness ==
    /\ resp.op = "get_instrumental" /\ resp.status = 404
    /\ resp.arg[1] < nextId.instrumentals
    /\ Len(instrumentals) > Len(SAMPLE_INSTRUMENTALS)

\* The same with no Seed ever run: only Delete can have removed the id.
C9_WitnessNoSeed ==
    /\ resp.op = "get_instrumental" /\ resp.status = 404
    /\ resp.arg[1] < nextId.instrumentals
    /\ Seeded = 0
    /\ instrumentals # <<>>

\* The fields a sample record spells out, as a stored record carries them.
SampleFields ==
    {"title", "mood", "duration", "duration_formatted", "is_premium", "is_featured",
     "thumbnail_color", "file_size"}
IsSample(doc, k) ==
    /\ \A f \in SampleFields : doc[f] = SAMPLE_INSTRUMENTALS[k][f]
    /\ doc.audio_url = Some(SAMPLE_INSTRUMENTALS[k].audio_url)
    /\ doc.play_count = 0

\* C11: with requests run one after another, Seed replaces: whatever the
\* catalog held, after Seed it holds exactly the 15 sample records, in order,
\* and users, playlists and subscriptions are as before; a List without
\* filters that follows a Seed returns those 15 records.
C11_SeedReplaces ==
    [][/\ SeedDatabase =>
            /\ Len(instrumentals') = 15
            /\ Len(SAMPLE_INSTRUMENTALS) = 15
            /\ \A k \in DOMAIN instrumentals' : IsSample(instrumentals'[k], k)
            /\ users' = users /\ playlists' = playlists /\ subscriptions' = subscriptions
       /\ resp.op = "seed_database" /\ GetInstrumentals(None, None, None) =>
            /\ Len(resp'.body) = 15
            /\ resp'.body = instrumentals]_vars

\* A List without filters has returned 15 records after the second Seed, a
\* record created earlier being gone, with the other collections filled.
C11_Witness ==
    /\ resp.op = "get_instrumentals" /\ Len(resp.body) = 15
    /\ Seeded = 2 /\ Created >= 1
    /\ Len(instrumentals) = 15
    /\ users # <<>> /\ playlists # <<>> /\ subscriptions # <<>>

HasPreview(doc) == doc.preview_start # None /\ doc.preview_end # None

\* C12: a List without filters that follows a Seed shows at least one premium
\* instrumental with preview_start and preview_end both set; every premium one
\* with both set has 0 <= preview_start < preview_end <= duration; every
\* non-premium one has both null.
C12_SeededPreviews ==
    [][resp.op = "seed_database" /\ GetInstrumentals(None, None, None) =>
          LET listed == resp'.body
          IN  /\ \E k \in DOMAIN listed : listed[k].is_premium /\ HasPreview(listed[k])
              /\ \A k \in DOMAIN listed :
                    listed[k].is_premium /\ HasPreview(listed[k]) =>
                       /\ 0 <= listed[k].preview_start[1]
                       /\ listed[k].preview_start[1] < listed[k].preview_end[1]
                       /\ listed[k].preview_end[1] <= listed[k].duration
              /\ \A k \in DOMAIN listed :
                    ~listed[k].is_premium =>
                       listed[k].preview_start = None /\ listed[k].preview_end = None]_vars

\* What the List that follows a Seed does show: premium and non-premium records,
\* none of them with a preview bound.
C12_SeededPreviewsNull ==
    [][resp.op = "seed_database" /\ GetInstrumentals(None, None, None) =>
          LET listed == resp'.body
          IN  /\ \E k \in DOMAIN listed : listed[k].is_premium
              /\ \E k \in DOMAIN listed : ~listed[k].is_premium
              /\ \A k \in DOMAIN listed :
                    listed[k].preview_start = None /\ listed[k].preview_end = None]_vars

\* A List without filters has returned the catalog a Seed left: 15 records, some
\* premium, none with a preview.
C12_Witness ==
    /\ resp.op = "get_instrumentals" /\ resp.arg = <<None, None, None>>
    /\ Seeded >= 1
    /\ resp.body = instrumentals
    /\ Len(resp.body) = 15
    /\ \A k \in DOMAIN resp.body : IsSample(resp.body[k], k) /\ ~HasPreview(resp.body[k])
    /\ \E k \in DOMAIN resp.body : resp.body[k].is_premium

\* The records a List is to return: those that pass every filter supplied.  No
\* mood, an empty one and "All" supply no mood filter; no search and an empty
\* one supply no search filter.
Listed(mood, is_premium, search) ==
    LET Pass(d) ==
            /\ mood = None \/ mood[1] = "" \/ mood[1] = "All" \/ d.mood = mood[1]
            /\ is_premium = None \/ d.is_premium = is_premium[1]
            /\ search = None \/ search[1] = "" \/ RegexSearch(search[1], d.title)
    IN  SelectSeq(instrumentals, Pass)

\* C13: on a catalog of at most 100 records List returns exactly the records
\* that pass every supplied filter: with mood "All" or none the same records as
\* without a mood filter, with any other mood only records of that mood, with
\* is_premium only records with that flag, and with several filters the records
\* that pass all of them.
C13_ListFiltersAnd ==
    [][resp'.op = "get_instrumentals" =>
          LET mood == resp'.arg[1]
              is_premium == resp'.arg[2]
              search == resp'.arg[3]
          IN  GetInstrumentals(mood, is_premium, search) /\ Len(instrumentals) <= 100 =>
                 /\ resp'.status = 200
                 /\ resp'.body = Listed(mood, is_premium, search)
                 /\ mood = Some("All") => resp'.body = Listed(None, is_premium, search)
                 /\ \A k \in DOMAIN resp'.body :
                       /\ mood \in {Some("Drums"), Some("Calm")} =>
                             resp'.body[k].mood = mood[1]
                       /\ is_premium # None => resp'.body[k].is_premium = is_premium[1]]_vars

\* A List for premium Calm records has returned some, from a catalog that also
\* holds a Calm record that is not premium and a premium record that is not
\* Calm.
C13_Witness ==
    /\ resp.op = "get_instrumentals" /\ resp.arg = <<Some("Calm"), Some(TRUE), None>>
    /\ resp.body # <<>>
    /\ resp.body = Listed(Some("Calm"), Some(TRUE), None)
    /\ \E k \in DOMAIN instrumentals :
          instrumentals[k].mood = "Calm" /\ ~instrumentals[k].is_premium
    /\ \E k \in DOMAIN instrumentals :
          instrumentals[k].mood # "Calm" /\ instrumentals[k].is_premium

\* A List with mood "All" has returned a whole catalog of several moods.
C13_WitnessAll ==
    /\ resp.op = "get_instrumentals" /\ resp.arg = <<Some("All"), None, None>>
    /\ resp.body = instrumentals
    /\ \E j, k \in DOMAIN instrumentals : instrumentals[j].mood # instrumentals[k].mood

\* C14: device_id is a key of users.  With CreateOrGet requests interleaved at
\* their store calls, no two stored users have the same device_id.
C14_DeviceIdIsKey ==
    \A i, j \in DOMAIN users : users[i].device_id = users[j].device_id => i = j

\* With requests run one after another, CreateOrGet writes only when no user has
\* the device_id, the user it writes is unsubscribed with no favorites, and
\* otherwise it returns the stored user and leaves users as it was.
C14_CreateOrGetSequential ==
    [][\A d \in DeviceIds :
          CreateOrGetUser(d) =>
             IF FindOne(users, [device_id |-> d]) = None
             THEN /\ users' = Append(users, resp'.body)
                  /\ resp'.body.device_id = d
                  /\ ~resp'.body.is_subscribed /\ resp'.body.favorites = <<>>
             ELSE /\ users' = users
                  /\ resp'.body = FindOne(users, [device_id |-> d])[1]]_vars

\* Two CreateOrGet requests for one device have both returned, each with a user
\* of its own.
C14_Witness ==
    \E i, j \in DOMAIN reqs :
        /\ i < j
        /\ reqs[i].op = "create_or_get_user" /\ reqs[j].op = "create_or_get_user"
        /\ reqs[i].arg = reqs[j].arg
        /\ reqs[i].pc = "done" /\ reqs[j].pc = "done"
        /\ reqs[i].resp[1].body.id # reqs[j].resp[1].body.id

\* C15: AddTrack is an idempotent insert that keeps positions.  No playlist's
\* track_ids ever names an id twice.  On a missing playlist AddTrack answers 404
\* and changes nothing; on an existing one it succeeds, appends the id at the
\* end if it was absent and leaves track_ids as it was if the id was present,
\* and in both cases sets updated_at to the time of the call and touches no
\* other field and no other playlist.
C15_AddTrackIdempotent ==
    [][/\ \A i \in DOMAIN playlists' : NoRepeat(playlists'[i].track_ids)
       /\ \A pl \in PlaylistIds, t \in TrackIds :
            AddTrackToPlaylist(pl, t) =>
               LET i == FirstIdx(playlists, [id |-> pl])
               IN  IF i = 0
                   THEN resp'.status = 404 /\ playlists' = playlists
                   ELSE /\ resp'.status = 200
                        /\ playlists'[i].track_ids =
                              IF t \in Range(playlists[i].track_ids)
                              THEN playlists[i].track_ids
                              ELSE Append(playlists[i].track_ids, t)
                        /\ playlists'[i].updated_at = now
                        /\ playlists' = [playlists EXCEPT
                                            ![i].track_ids = playlists'[i].track_ids,
                                            ![i].updated_at = now]]_vars

\* An AddTrack has succeeded on an id that is first of two in track_ids, so it
\* was there before the call, and updated_at is the time of the call, later
\* than the playlist's creation.
C15_Witness ==
    /\ resp.op = "add_track_to_playlist" /\ resp.status = 200
    /\ \E i \in DOMAIN playlists :
          /\ playlists[i].id = resp.arg[1]
          /\ Len(playlists[i].track_ids) = 2
          /\ playlists[i].track_ids[1] = resp.arg[2]
          /\ playlists[i].updated_at = now
          /\ playlists[i].created_at < now

\* An AddTrack refused for a playlist that is not stored.
C15_WitnessNoPlaylist ==
    /\ resp.op = "add_track_to_playlist" /\ resp.status = 404
    /\ nextId.playlists > 1

\* The ids of a list of records.
IdsOf(docs) == {docs[k].id : k \in DOMAIN docs}

\* C16: Delete of an instrumental does not cascade.  It leaves users and
\* playlists as they were, so every favorites and track_ids keeps the deleted
\* id.  Afterwards Favorites List of an existing user succeeds and returns the
\* stored records of the favorites that the catalog holds, none for a deleted
\* id; GetDetail of an existing playlist succeeds and returns the track_ids that
\* the catalog holds, in order; Favorites Check of an id in favorites answers
\* true whether or not the catalog holds it.
C16_DeleteDoesNotCascade ==
    [][/\ \A id \in TrackIds :
            DeleteInstrumental(id) => users' = users /\ playlists' = playlists
       /\ \A u \in UserIds :
            GetFavorites(u) /\ FindOne(users, [id |-> u]) # None =>
               /\ resp'.status = 200
               /\ IdsOf(resp'.body) = {t \in Range(FavoritesOf(users, u)) : Holds(t)}
               /\ Len(resp'.body) = Cardinality(IdsOf(resp'.body))
               /\ \A k \in DOMAIN resp'.body :
                     Some(resp'.body[k]) = FindOne(instrumentals, [id |-> resp'.body[k].id])
       /\ \A pl \in PlaylistIds :
            GetPlaylist(pl) /\ FindOne(playlists, [id |-> pl]) # None =>
               /\ resp'.status = 200
               /\ resp'.body.tracks = LiveTracks(FindOne(playlists, [id |-> pl])[1].track_ids)
       /\ \A u \in UserIds, t \in TrackIds :
            /\ CheckFavorite(u, t)
            /\ FindOne(users, [id |-> u]) # None
            /\ t \in Range(FavoritesOf(users, u))
            => resp'.status = 200 /\ resp'.body.is_favorite]_vars

\* An id that was handed out and is no longer in the catalog, still named by a
\* user's favorites and by a playlist.
Stale(t) ==
    /\ t < nextId.instrumentals /\ ~Holds(t)
    /\ \E i \in DOMAIN users : t \in Range(users[i].favorites)
    /\ \E i \in DOMAIN playlists : t \in Range(playlists[i].track_ids)

\* Favorites Check has answered true for a stale id.
C16_Witness ==
    /\ resp.op = "check_favorite" /\ resp.status = 200 /\ resp.body.is_favorite
    /\ Stale(resp.arg[2])

\* Favorites List has returned one record for a user with two favorites, one of
\* them stale.
C16_WitnessList ==
    /\ resp.op = "get_favorites" /\ resp.status = 200 /\ Len(resp.body) = 1
    /\ FindOne(users, [id |-> resp.arg[1]]) # None
    /\ Len(FavoritesOf(users, resp.arg[1])) = 2
    /\ \E t \in Range(FavoritesOf(users, resp.arg[1])) : Stale(t)

\* GetDetail has returned one track for a playlist of two ids, one of them stale.
C16_WitnessDetail ==
    /\ resp.op = "get_playlist" /\ resp.status = 200 /\ Len(resp.body.tracks) = 1
    /\ Len(resp.body.playlist.track_ids) = 2
    /\ resp.body.playlist \in Range(playlists)
    /\ \E t \in Range(resp.body.playlist.track_ids) : Stale(t)

\* A Delete has just removed a record that favorites and a playlist name.
C16_WitnessDelete ==
    /\ resp.op = "delete_instrumental" /\ resp.status = 200
    /\ Stale(resp.arg[1])

\* C17: with requests run one after another and Subscribe called only for
\* users that exist, a stored user's is_subscribed is TRUE exactly when
\* subscriptions holds a row with its id as user_id and is_active = TRUE.
C17_FlagMatchesRows ==
    \A i \in DOMAIN users : users[i].is_subscribed <=> ActiveRows(users[i].id) # {}

\* One user whose flag was set and cleared again, its row now inactive, and
\* another whose flag is set, its row active.
C17_Witness ==
    \E i, j \in DOMAIN users :
        /\ ~users[i].is_subscribed
        /\ RowsOf(users[i].id) # {} /\ ActiveRows(users[i].id) = {}
        /\ users[j].is_subscribed
        /\ ActiveRows(users[j].id) # {}

\* The IncrementPlayCount requests for id that have returned after their update
\* matched a stored record.
PlaysDone(id) ==
    {i \in DOMAIN reqs :
        /\ reqs[i].op = "increment_play_count" /\ reqs[i].arg[1] = id
        /\ reqs[i].pc = "done" /\ reqs[i].found = Some(1)}

\* C10: with catalog requests interleaved at their store calls, every stored
\* instrumental's play_count is 0, its value at creation, plus the number of
\* IncrementPlayCount requests that have run on it: Update requests in flight
\* lose none, and the count never goes down.
C10_NoLostPlay ==
    \A k \in DOMAIN instrumentals :
        instrumentals[k].play_count = Cardinality(PlaysDone(instrumentals[k].id))

\* A play of a record counted while an Update of the same record, started
\* earlier, sits between its two store calls.
C10_Witness ==
    \E k \in DOMAIN instrumentals, i, j \in DOMAIN reqs :
        /\ instrumentals[k].play_count >= 1
        /\ reqs[i].op = "update_instrumental" /\ reqs[i].arg[1] = instrumentals[k].id
        /\ reqs[i].pc = "reread"
        /\ j \in PlaysDone(instrumentals[k].id)
        /\ i < j
        /\ instrumentals[k].title = "Retitled"
====
